---- MODULE Spec2Model ----
(***************************************************************************)
(* Model of src/util/locks.h: simple_spinlock, rw_spinlock and             *)
(* percpu_rwlock.  Every thread is a client that calls the methods of the  *)
(* three classes; each method is cut into the steps at which it touches    *)
(* shared state (one call of the underlying primitive, one annotation).    *)
(* rw_semaphore (util/rw_semaphore.h) and base::SpinLock                   *)
(* (gutil/spinlock.h) are not part of the file; they are modelled from     *)
(* their described behaviour.                                              *)
(***************************************************************************)
EXTENDS Integers, Sequences, FiniteSets, TLC

\* ------------------------------------------------------------------ bounds
\* number of client threads
NumThreads == 2
\* value base::NumCPUs() returns in the constructor (n_cpus_)
NumCPUs == 3
\* how many times a reader changes processor inside a critical section
MaxMigrations == 1

Threads == 1..NumThreads

\* ------------------------------------------------------------------ state
VARIABLES
  env,      \* what the host answers: errno after base::NumCPUs() and its value
  n_cpus_,  \* percpu_rwlock::n_cpus_
  migrations, \* how often a reader has changed processor inside a critical section
  rwl,      \* rwl[r]: the rw_spinlock object r (sem_, its holders, annotations)
  l_,       \* simple_spinlock::l_ : TRUE when held
  pc,       \* pc[t]: where thread t stands
  op,       \* op[t]: the outermost method t is executing ("none" outside calls)
  i,        \* i[t]: the loop variable of the percpu_rwlock method t executes
  self,     \* self[t]: the rw_spinlock whose method t executes (this)
  handle,   \* handle[t]: the rw_spinlock reference the client keeps
  cpu,      \* cpu[t]: the processor t's last get_lock() saw, or t was moved to since
  holding,  \* holding[t]: what the client has been granted and not given back
  ret,      \* ret[t]: the value the finished call returned
  calllog   \* calllog[t]: the shard operations of t's running try_lock()

vars == <<env, n_cpus_, migrations, rwl, l_, pc, op, i, self, handle, cpu, holding, ret, calllog>>

\* ------------------------------------------------- percpu_rwlock's fields
Shards == 0..(n_cpus_ - 1)

\* References to rw_spinlock objects: the shards locks_[i].lock of the one
\* percpu_rwlock, and one rw_spinlock used on its own.
locks_(k) == <<"locks_", k>>
standalone == <<"rw", 0>>
NoRef == <<"none", 0>>
RwRefs == {locks_(k) : k \in Shards} \cup {standalone}

\* ----------------------------------------------------------- rw_semaphore
\* State of one rw_semaphore: the number of readers and the writer flag.
\* Each operation gives: whether it can complete now (a blocking call spins
\* while it cannot), what it returns, and the state it leaves.
SemInit == [readers |-> 0, writer |-> FALSE]

sem_lock_shared(s) ==
  [enabled |-> ~s.writer, ret |-> TRUE,
   sem |-> [s EXCEPT !.readers = @ + 1]]

sem_unlock_shared(s) ==
  [enabled |-> TRUE, ret |-> TRUE,
   sem |-> [s EXCEPT !.readers = @ - 1]]

sem_try_lock(s) ==
  LET free == s.readers = 0 /\ ~s.writer
  IN [enabled |-> TRUE, ret |-> free,
      sem |-> IF free THEN [s EXCEPT !.writer = TRUE] ELSE s]

sem_lock(s) ==
  [enabled |-> s.readers = 0 /\ ~s.writer, ret |-> TRUE,
   sem |-> [s EXCEPT !.writer = TRUE]]

sem_unlock(s) ==
  [enabled |-> TRUE, ret |-> TRUE,
   sem |-> [s EXCEPT !.writer = FALSE]]

sem_is_locked(s) == s.readers # 0 \/ s.writer

\* ---------------------------------------------------------- base::SpinLock
SpinLock_Lock(l) == [enabled |-> ~l, ret |-> TRUE, held |-> TRUE]
SpinLock_TryLock(l) == [enabled |-> TRUE, ret |-> ~l, held |-> TRUE]
SpinLock_Unlock(l) == [enabled |-> TRUE, ret |-> TRUE, held |-> FALSE]
SpinLock_IsHeld(l) == l

\* One rw_spinlock: sem_ is the only field; whold/rhold record the threads
\* to which sem_ granted exclusive/shared access through this object and
\* that have not released it; ann is the race detector's view: the
\* <<thread, slot>> pairs annotated acquired and not yet released.
RwInit == [sem |-> SemInit, whold |-> {}, rhold |-> {}, ann |-> {}]

\* CHECK_EQ(errno, 0) and CHECK_GT(n_cpus_, 0) of the constructor
ctor_check_errno(e) == e = 0
\* a slip: a count of zero accepted
ctor_check_gt_weak(n) == n >= 0
ctor_check_gt(n) == n > 0

\* percpu_rwlock(): errno = 0; n_cpus_ = base::NumCPUs(); the two CHECKs;
\* locks_ = new padded_lock[n_cpus_].  Gives whether the process aborts, the
\* field n_cpus_ and the rw_spinlock objects that exist afterwards.
percpu_rwlock_ctor(host) ==
  LET ok == ctor_check_errno(host.errno) /\ ctor_check_gt(host.ncpus) IN
    [abort |-> ~ok,
     n_cpus_ |-> host.ncpus,
     objects |-> IF ok
                   THEN [r \in {locks_(k) : k \in 0..(host.ncpus - 1)} \cup {standalone} |-> RwInit]
                   ELSE [r \in {standalone} |-> RwInit]]

\* the host of the running system: NumCPUs() succeeds and returns NumCPUs
GoodHost == [errno |-> 0, ncpus |-> NumCPUs]

\* the state once the constructors have run
Init ==
  /\ env = GoodHost
  /\ n_cpus_ = percpu_rwlock_ctor(env).n_cpus_
  /\ migrations = 0
  /\ rwl = percpu_rwlock_ctor(env).objects
  /\ l_ = FALSE
  /\ pc = [t \in Threads |-> "idle"]
  /\ op = [t \in Threads |-> "none"]
  /\ i = [t \in Threads |-> 0]
  /\ self = [t \in Threads |-> NoRef]
  /\ handle = [t \in Threads |-> NoRef]
  /\ cpu = [t \in Threads |-> 0]
  /\ holding = [t \in Threads |-> "none"]
  /\ ret = [t \in Threads |-> TRUE]
  /\ calllog = [t \in Threads |-> <<>>]

\* ------------------------------------------------------------- helpers
Set(f, t, v) == [f EXCEPT ![t] = v]

PercpuOps == {"percpu_lock", "percpu_try_lock", "percpu_unlock", "percpu_is_locked"}

\* a call of the client returns: the thread is in "done" until Return
Done(t, o, v, h) ==
  /\ pc' = Set(pc, t, "done")
  /\ op' = Set(op, t, o)
  /\ ret' = Set(ret, t, v)
  /\ holding' = Set(holding, t, h)
  /\ i' = Set(i, t, 0)
  /\ self' = Set(self, t, NoRef)

\* ------------------------------------------------------------- rw_spinlock
\* The rw_semaphore call each method makes.
lock_shared_call(s) == sem_lock_shared(s)
\* a slip: unlock_shared() releasing the semaphore in exclusive mode
unlock_shared_call_excl(s) == sem_unlock(s)
unlock_shared_call(s) == sem_unlock_shared(s)
try_lock_call(s) == sem_try_lock(s)
\* a slip: lock() taking the semaphore in shared mode
lock_call_shared(s) == sem_lock_shared(s)
lock_call(s) == sem_lock(s)
unlock_call(s) == sem_unlock(s)

rw_is_locked(o) == sem_is_locked(o.sem)

\* lock_shared(): sem_.lock_shared(); then ANNOTATE_RWLOCK_ACQUIRED(this, 0)
ls_sem(t) ==
  /\ pc[t] = "ls_sem"
  /\ LET r == lock_shared_call(rwl[self[t]].sem) IN
       /\ r.enabled
       /\ rwl' = [rwl EXCEPT ![self[t]].sem = r.sem,
                             ![self[t]].rhold = @ \cup {t}]
  /\ pc' = Set(pc, t, "ls_ann")
  /\ UNCHANGED <<env, n_cpus_, migrations, l_, op, i, self, handle, cpu, holding, ret, calllog>>

ls_ann(t) ==
  /\ pc[t] = "ls_ann"
  /\ rwl' = [rwl EXCEPT ![self[t]].ann = @ \cup {<<t, 0>>}]
  /\ Done(t, op[t], TRUE, "shared")
  /\ UNCHANGED <<env, n_cpus_, migrations, l_, handle, cpu, calllog>>

\* unlock_shared(): ANNOTATE_RWLOCK_RELEASED(this, 0); then sem_.unlock_shared()
\* a slip: the released annotation left out
us_ann_keep(t) ==
  /\ pc[t] = "us_ann"
  /\ pc' = Set(pc, t, "us_sem")
  /\ UNCHANGED <<env, n_cpus_, migrations, rwl, l_, op, i, self, handle, cpu, holding, ret, calllog>>

us_ann(t) ==
  /\ pc[t] = "us_ann"
  /\ rwl' = [rwl EXCEPT ![self[t]].ann = @ \ {<<t, 0>>}]
  /\ pc' = Set(pc, t, "us_sem")
  /\ UNCHANGED <<env, n_cpus_, migrations, l_, op, i, self, handle, cpu, holding, ret, calllog>>

us_sem(t) ==
  /\ pc[t] = "us_sem"
  /\ LET r == unlock_shared_call(rwl[self[t]].sem) IN
       /\ r.enabled
       /\ rwl' = [rwl EXCEPT ![self[t]].sem = r.sem,
                             ![self[t]].rhold = @ \ {t}]
  /\ Done(t, op[t], TRUE, "none")
  /\ UNCHANGED <<env, n_cpus_, migrations, l_, handle, cpu, calllog>>

\* try_lock(): ret = sem_.try_lock(); if (ret) ANNOTATE_RWLOCK_ACQUIRED(this, 1);
\* return ret.  Called by the client and by percpu_rwlock::try_lock().
\* a slip: the negation of the test dropped
try_lock_failed_inverted(r) == r
\* if (!locks_[i].lock.try_lock())
try_lock_failed(r) == ~r

\* the rw_spinlock try_lock() of thread t returns v to its caller
try_lock_return(t, v) ==
  IF op[t] = "percpu_try_lock"
    THEN \* percpu_rwlock::try_lock: if (!locks_[i].lock.try_lock()) ... ; i++
         /\ IF try_lock_failed(v)
              THEN /\ pc' = Set(pc, t, "rb_loop")
                   /\ i' = i
              ELSE /\ pc' = Set(pc, t, "try_loop")
                   /\ i' = Set(i, t, i[t] + 1)
         /\ self' = Set(self, t, NoRef)
         /\ UNCHANGED <<op, holding, ret>>
    ELSE Done(t, op[t], v, IF v THEN "excl" ELSE "none")

tl_sem(t) ==
  /\ pc[t] = "tl_sem"
  /\ LET r == try_lock_call(rwl[self[t]].sem) IN
       /\ r.enabled
       /\ rwl' = [rwl EXCEPT ![self[t]].sem = r.sem,
                             ![self[t]].whold = IF r.ret THEN @ \cup {t} ELSE @]
       /\ IF r.ret
            THEN /\ pc' = Set(pc, t, "tl_ann")
                 /\ UNCHANGED <<op, i, self, holding, ret>>
            ELSE try_lock_return(t, FALSE)
       /\ calllog' = IF op[t] = "percpu_try_lock"
                       THEN Set(calllog, t, Append(calllog[t], <<"try_lock", i[t], r.ret>>))
                       ELSE calllog
  /\ UNCHANGED <<env, n_cpus_, migrations, l_, handle, cpu>>

tl_ann(t) ==
  /\ pc[t] = "tl_ann"
  /\ rwl' = [rwl EXCEPT ![self[t]].ann = @ \cup {<<t, 1>>}]
  /\ try_lock_return(t, TRUE)
  /\ UNCHANGED <<env, n_cpus_, migrations, l_, handle, cpu, calllog>>

\* lock(): sem_.lock(); then ANNOTATE_RWLOCK_ACQUIRED(this, 1).
\* Called by the client and by percpu_rwlock::lock().
l_sem(t) ==
  /\ pc[t] = "l_sem"
  /\ LET r == lock_call(rwl[self[t]].sem) IN
       /\ r.enabled
       /\ rwl' = [rwl EXCEPT ![self[t]].sem = r.sem,
                             ![self[t]].whold = @ \cup {t}]
  /\ pc' = Set(pc, t, "l_ann")
  /\ UNCHANGED <<env, n_cpus_, migrations, l_, op, i, self, handle, cpu, holding, ret, calllog>>

\* a slip: the acquired annotation left out
l_ann_skip(t) ==
  /\ pc[t] = "l_ann"
  /\ IF op[t] = "percpu_lock"
       THEN /\ pc' = Set(pc, t, "lock_loop")
            /\ i' = Set(i, t, i[t] + 1)
            /\ self' = Set(self, t, NoRef)
            /\ UNCHANGED <<op, holding, ret>>
       ELSE Done(t, op[t], TRUE, "excl")
  /\ UNCHANGED <<env, n_cpus_, migrations, rwl, l_, handle, cpu, calllog>>

l_ann(t) ==
  /\ pc[t] = "l_ann"
  /\ rwl' = [rwl EXCEPT ![self[t]].ann = @ \cup {<<t, 1>>}]
  /\ IF op[t] = "percpu_lock"
       THEN \* back in percpu_rwlock::lock: i++
            /\ pc' = Set(pc, t, "lock_loop")
            /\ i' = Set(i, t, i[t] + 1)
            /\ self' = Set(self, t, NoRef)
            /\ UNCHANGED <<op, holding, ret>>
       ELSE Done(t, op[t], TRUE, "excl")
  /\ UNCHANGED <<env, n_cpus_, migrations, l_, handle, cpu, calllog>>

\* unlock(): ANNOTATE_RWLOCK_RELEASED(this, 1); then sem_.unlock().
\* Called by the client, by percpu_rwlock::unlock() and by the rollback of
\* percpu_rwlock::try_lock().
u_ann(t) ==
  /\ pc[t] = "u_ann"
  /\ rwl' = [rwl EXCEPT ![self[t]].ann = @ \ {<<t, 1>>}]
  /\ pc' = Set(pc, t, "u_sem")
  /\ UNCHANGED <<env, n_cpus_, migrations, l_, op, i, self, handle, cpu, holding, ret, calllog>>

u_sem(t) ==
  /\ pc[t] = "u_sem"
  /\ LET r == unlock_call(rwl[self[t]].sem) IN
       /\ r.enabled
       /\ rwl' = [rwl EXCEPT ![self[t]].sem = r.sem,
                             ![self[t]].whold = @ \ {t}]
  /\ IF op[t] = "percpu_unlock"
       THEN \* back in percpu_rwlock::unlock: i++
            /\ pc' = Set(pc, t, "unlock_loop")
            /\ i' = Set(i, t, i[t] + 1)
            /\ self' = Set(self, t, NoRef)
            /\ UNCHANGED <<op, holding, ret, calllog>>
       ELSE IF op[t] = "percpu_try_lock"
         THEN \* back in the rollback loop of percpu_rwlock::try_lock
              /\ pc' = Set(pc, t, "rb_loop")
              /\ self' = Set(self, t, NoRef)
              /\ calllog' = Set(calllog, t, Append(calllog[t], <<"unlock", i[t], TRUE>>))
              /\ UNCHANGED <<op, i, holding, ret>>
         ELSE /\ Done(t, op[t], TRUE, "none")
              /\ UNCHANGED calllog
  /\ UNCHANGED <<env, n_cpus_, migrations, l_, handle, cpu>>

\* -------------------------------------------------------- percpu_rwlock
\* get_lock(): cpu = sched_getcpu(); CHECK_LT(cpu, n_cpus_); return locks_[cpu].lock
SchedCpus == Shards
get_lock_check(c) == c < n_cpus_
\* a slip: every processor routed to shard 0
get_lock_ref_zero(c) == locks_(0)
get_lock_ref(c) == locks_(c)

get_lock(t) ==
  /\ pc[t] = "idle" /\ holding[t] = "none"
  /\ \E c \in SchedCpus :
       /\ get_lock_check(c)
       /\ cpu' = Set(cpu, t, c)
       /\ handle' = Set(handle, t, get_lock_ref(c))
  /\ pc' = Set(pc, t, "got_lock")
  /\ UNCHANGED <<env, n_cpus_, migrations, rwl, l_, op, i, self, holding, ret, calllog>>

\* loop conditions of lock(), unlock(), try_lock() and is_locked()
\* slips: a loop that stops one shard early
lock_cond_short(k) == k < n_cpus_ - 1
unlock_cond_short(k) == k < n_cpus_ - 1
try_lock_cond_short(k) == k < n_cpus_ - 1
is_locked_cond_short(k) == k < n_cpus_ - 1
lock_cond(k) == k < n_cpus_
unlock_cond(k) == k < n_cpus_
try_lock_cond(k) == k < n_cpus_
is_locked_cond(k) == k < n_cpus_
\* a slip: while (--i), which leaves shard 0 locked
rollback_cond_pre(k) == k > 1
\* while (i--): the test on the old value of i
rollback_cond(k) == k # 0
\* a slip: the shard unlocked before i is decremented
rollback_index_late(k) == k
\* locks_[i] after the decrement of while (i--)
rollback_index(k) == k - 1

\* the client calls a method of the percpu_rwlock
\* A failed CHECK ends the process: no thread takes another step.
Abort ==
  /\ pc' = [t \in Threads |-> "aborted"]
  /\ UNCHANGED <<env, n_cpus_, migrations, rwl, l_, op, i, self, handle, cpu, holding, ret, calllog>>

\* What sched_getcpu() can answer: the number of a processor, which may be one
\* the count taken at construction did not include, or -1 when it fails.
AnyCpus == (0 - 1)..n_cpus_

\* get_lock() on a host whose sched_getcpu() answers anything in AnyCpus:
\* int cpu = sched_getcpu(); CHECK_LT(cpu, n_cpus_); return locks_[cpu].lock;
get_lock_any(t) ==
  /\ pc[t] = "idle" /\ holding[t] = "none"
  /\ \E c \in AnyCpus :
       IF get_lock_check(c)
         THEN /\ cpu' = Set(cpu, t, c)
              /\ handle' = Set(handle, t, get_lock_ref(c))
              /\ pc' = Set(pc, t, "got_lock")
              /\ UNCHANGED <<env, n_cpus_, migrations, rwl, l_, op, i, self, holding, ret, calllog>>
         ELSE Abort

\* lock_shared() through a reference get_lock() formed outside locks_[0..N-1]:
\* the access is undefined.  The process faults, or the bytes addressed are
\* those of some rw_spinlock that exists and the call acts on that one.
oob_lock_shared(t) ==
  /\ pc[t] = "got_lock"
  /\ handle[t] \notin RwRefs
  /\ \/ Abort
     \/ \E r \in RwRefs :
          /\ handle' = Set(handle, t, r)
          /\ pc' = Set(pc, t, "ls_sem")
          /\ op' = Set(op, t, "rw_lock_shared")
          /\ self' = Set(self, t, r)
          /\ UNCHANGED <<env, n_cpus_, migrations, rwl, l_, i, cpu, holding, ret, calllog>>

Call(t, o, first, h) ==
  /\ pc' = Set(pc, t, first)
  /\ op' = Set(op, t, o)
  /\ i' = Set(i, t, 0)
  /\ holding' = Set(holding, t, h)
  /\ UNCHANGED <<env, n_cpus_, migrations, rwl, l_, self, handle, cpu, ret, calllog>>

percpu_lock(t) ==
  /\ pc[t] = "idle" /\ holding[t] = "none"
  /\ Call(t, "percpu_lock", "lock_loop", "none")

\* for (i = 0; i < n_cpus_; i++) locks_[i].lock.lock();
\* a slip: the shards taken from the last one down
lock_index_desc(k) == n_cpus_ - 1 - k
\* locks_[i].lock.lock(): the shard the loop of lock() takes in round i
lock_index(k) == k

lock_loop(t) ==
  /\ pc[t] = "lock_loop"
  /\ IF lock_cond(i[t])
       THEN /\ self' = Set(self, t, locks_(lock_index(i[t])))
            /\ pc' = Set(pc, t, "l_sem")
            /\ UNCHANGED <<op, i, holding, ret>>
       ELSE Done(t, op[t], TRUE, "percpu")
  /\ UNCHANGED <<env, n_cpus_, migrations, rwl, l_, handle, cpu, calllog>>

percpu_unlock(t) ==
  /\ pc[t] = "idle" /\ holding[t] = "percpu"
  /\ Call(t, "percpu_unlock", "unlock_loop", "none")

\* for (i = 0; i < n_cpus_; i++) locks_[i].lock.unlock();
unlock_loop(t) ==
  /\ pc[t] = "unlock_loop"
  /\ IF unlock_cond(i[t])
       THEN /\ self' = Set(self, t, locks_(i[t]))
            /\ pc' = Set(pc, t, "u_ann")
            /\ UNCHANGED <<op, i, holding, ret>>
       ELSE Done(t, op[t], TRUE, "none")
  /\ UNCHANGED <<env, n_cpus_, migrations, rwl, l_, handle, cpu, calllog>>

percpu_try_lock(t) ==
  /\ pc[t] = "idle" /\ holding[t] = "none"
  /\ Call(t, "percpu_try_lock", "try_loop", "none")

\* for (i = 0; i < n_cpus_; i++) if (!locks_[i].lock.try_lock()) {...}
\* return true;
try_loop(t) ==
  /\ pc[t] = "try_loop"
  /\ IF try_lock_cond(i[t])
       THEN /\ self' = Set(self, t, locks_(i[t]))
            /\ pc' = Set(pc, t, "tl_sem")
            /\ UNCHANGED <<op, i, holding, ret>>
       ELSE Done(t, op[t], TRUE, "percpu")
  /\ UNCHANGED <<env, n_cpus_, migrations, rwl, l_, handle, cpu, calllog>>

\* while (i--) locks_[i].lock.unlock();  return false;
rb_loop(t) ==
  /\ pc[t] = "rb_loop"
  /\ IF rollback_cond(i[t])
       THEN /\ i' = Set(i, t, i[t] - 1)
            /\ self' = Set(self, t, locks_(rollback_index(i[t])))
            /\ pc' = Set(pc, t, "u_ann")
            /\ UNCHANGED <<op, holding, ret>>
       ELSE Done(t, op[t], FALSE, "none")
  /\ UNCHANGED <<env, n_cpus_, migrations, rwl, l_, handle, cpu, calllog>>

\* is_locked(): for (i...) if (locks_[i].lock.is_locked()) return true;
\* return false.  Assertions call it while holding the lock or not.
percpu_is_locked(t) ==
  /\ pc[t] = "idle"
  /\ \/ holding[t] \in {"none", "percpu"}
     \/ holding[t] = "shared" /\ handle[t] # standalone
  /\ Call(t, "percpu_is_locked", "il_loop", holding[t])

il_loop(t) ==
  /\ pc[t] = "il_loop"
  /\ IF is_locked_cond(i[t])
       THEN IF rw_is_locked(rwl[locks_(i[t])])
              THEN Done(t, op[t], TRUE, holding[t])
              ELSE /\ i' = Set(i, t, i[t] + 1)
                   /\ UNCHANGED <<pc, op, self, holding, ret>>
       ELSE Done(t, op[t], FALSE, holding[t])
  /\ UNCHANGED <<env, n_cpus_, migrations, rwl, l_, handle, cpu, calllog>>

\* ------------------------------------------- clients of one rw_spinlock
\* boost::shared_lock<rw_spinlock> lock(mylock.get_lock()): lock_shared()
\* on the shard get_lock() returned
shard_lock_shared(t) ==
  /\ pc[t] = "got_lock"
  /\ handle[t] \in RwRefs
  /\ pc' = Set(pc, t, "ls_sem")
  /\ op' = Set(op, t, "rw_lock_shared")
  /\ self' = Set(self, t, handle[t])
  /\ UNCHANGED <<env, n_cpus_, migrations, rwl, l_, i, handle, cpu, holding, ret, calllog>>

\* a call on the rw_spinlock used on its own
CallRw(t, o, first) ==
  /\ pc[t] = "idle" /\ holding[t] = "none"
  /\ pc' = Set(pc, t, first)
  /\ op' = Set(op, t, o)
  /\ handle' = Set(handle, t, standalone)
  /\ self' = Set(self, t, standalone)
  /\ UNCHANGED <<env, n_cpus_, migrations, rwl, l_, i, cpu, holding, ret, calllog>>

rw_lock_shared(t) == CallRw(t, "rw_lock_shared", "ls_sem")
rw_lock(t) == CallRw(t, "rw_lock", "l_sem")
rw_try_lock(t) == CallRw(t, "rw_try_lock", "tl_sem")

\* the release that matches the acquisition, on the same reference
\* a slip: the guard looking the shard up again when it unlocks
unlock_target_refetch(t) ==
  IF handle[t] = standalone THEN handle[t] ELSE get_lock_ref(cpu[t])
\* the rw_spinlock a shared_lock guard unlocks: the one it was given
unlock_target(t) == handle[t]

rw_unlock_shared(t) ==
  /\ pc[t] = "idle" /\ holding[t] = "shared"
  /\ pc' = Set(pc, t, "us_ann")
  /\ op' = Set(op, t, "rw_unlock_shared")
  /\ self' = Set(self, t, unlock_target(t))
  /\ holding' = Set(holding, t, "none")
  /\ UNCHANGED <<env, n_cpus_, migrations, rwl, l_, i, handle, cpu, ret, calllog>>

rw_unlock(t) ==
  /\ pc[t] = "idle" /\ holding[t] = "excl"
  /\ pc' = Set(pc, t, "u_ann")
  /\ op' = Set(op, t, "rw_unlock")
  /\ self' = Set(self, t, handle[t])
  /\ holding' = Set(holding, t, "none")
  /\ UNCHANGED <<env, n_cpus_, migrations, rwl, l_, i, handle, cpu, ret, calllog>>

\* rw_spinlock::is_locked(): return sem_.is_locked(); on the reference the
\* client holds, or on the rw_spinlock used on its own
rw_spinlock_is_locked(t) ==
  /\ pc[t] = "idle" /\ holding[t] \in {"none", "shared", "excl"}
  /\ LET o == IF holding[t] = "none" THEN standalone ELSE handle[t] IN
       Done(t, "rw_is_locked", rw_is_locked(rwl[o]), holding[t])
  /\ UNCHANGED <<env, n_cpus_, migrations, rwl, l_, handle, cpu, calllog>>

\* ------------------------------------------------------ simple_spinlock
simple_lock(t) ==
  /\ pc[t] = "idle" /\ holding[t] = "none"
  /\ pc' = Set(pc, t, "sl_lock")
  /\ op' = Set(op, t, "simple_lock")
  /\ UNCHANGED <<env, n_cpus_, migrations, rwl, l_, i, self, handle, cpu, holding, ret, calllog>>

\* lock(): l_.Lock()
sl_lock(t) ==
  /\ pc[t] = "sl_lock"
  /\ LET r == SpinLock_Lock(l_) IN
       /\ r.enabled
       /\ l_' = r.held
  /\ Done(t, op[t], TRUE, "simple")
  /\ UNCHANGED <<env, n_cpus_, migrations, rwl, handle, cpu, calllog>>

\* try_lock(): return l_.TryLock()
simple_try_lock(t) ==
  /\ pc[t] = "idle" /\ holding[t] = "none"
  /\ LET r == SpinLock_TryLock(l_) IN
       /\ l_' = r.held
       /\ Done(t, "simple_try_lock", r.ret, IF r.ret THEN "simple" ELSE "none")
  /\ UNCHANGED <<env, n_cpus_, migrations, rwl, handle, cpu, calllog>>

\* unlock(): l_.Unlock()
simple_unlock(t) ==
  /\ pc[t] = "idle" /\ holding[t] = "simple"
  /\ l_' = SpinLock_Unlock(l_).held
  /\ Done(t, "simple_unlock", TRUE, "none")
  /\ UNCHANGED <<env, n_cpus_, migrations, rwl, handle, cpu, calllog>>

\* is_locked(): return l_.IsHeld()
simple_is_locked(t) ==
  /\ pc[t] = "idle" /\ holding[t] \in {"none", "simple"}
  /\ Done(t, "simple_is_locked", SpinLock_IsHeld(l_), holding[t])
  /\ UNCHANGED <<env, n_cpus_, migrations, rwl, l_, handle, cpu, calllog>>

\* ---------------------------------------------------------------- client
\* the call has returned; the client goes on
Return(t) ==
  /\ pc[t] = "done"
  /\ pc' = Set(pc, t, "idle")
  /\ op' = Set(op, t, "none")
  /\ ret' = Set(ret, t, TRUE)
  /\ calllog' = Set(calllog, t, <<>>)
  /\ handle' = IF holding[t] \in {"shared", "excl"} THEN handle ELSE Set(handle, t, NoRef)
  /\ cpu' = IF holding[t] = "shared" THEN cpu ELSE Set(cpu, t, 0)
  /\ UNCHANGED <<env, n_cpus_, migrations, rwl, l_, i, self, holding>>

\* steps inside rw_spinlock methods
RwStep(t) ==
  \/ ls_sem(t) \/ ls_ann(t) \/ us_ann(t) \/ us_sem(t)
  \/ tl_sem(t) \/ tl_ann(t) \/ l_sem(t) \/ l_ann(t) \/ u_ann(t) \/ u_sem(t)

Next ==
  \E t \in Threads :
    \/ RwStep(t)
    \/ get_lock(t) \/ shard_lock_shared(t)
    \/ percpu_lock(t) \/ lock_loop(t)
    \/ percpu_unlock(t) \/ unlock_loop(t)
    \/ percpu_try_lock(t) \/ try_loop(t) \/ rb_loop(t)
    \/ percpu_is_locked(t) \/ il_loop(t)
    \/ rw_lock_shared(t) \/ rw_lock(t) \/ rw_try_lock(t)
    \/ rw_unlock_shared(t) \/ rw_unlock(t) \/ rw_spinlock_is_locked(t)
    \/ simple_lock(t) \/ sl_lock(t) \/ simple_try_lock(t)
    \/ simple_unlock(t) \/ simple_is_locked(t)
    \/ Return(t)

Spec == Init /\ [][Next]_vars

\* Threads that only loop percpu_rwlock::lock(); unlock().  A thread that can
\* take a step is eventually scheduled; a thread spinning in sem_.lock() has
\* no step to take while the shard is held.
ExclStep(t) ==
  \/ percpu_lock(t) \/ lock_loop(t) \/ l_sem(t) \/ l_ann(t)
  \/ percpu_unlock(t) \/ unlock_loop(t) \/ u_ann(t) \/ u_sem(t)
  \/ Return(t)

ExclNext == \E t \in Threads : ExclStep(t)

FairSpec == Init /\ [][ExclNext]_vars /\ \A t \in Threads : WF_vars(ExclStep(t))

\* Readers and writers mixed: a thread reads through get_lock() /
\* lock_shared() / unlock_shared() on the handle it fetched, or writes through
\* lock() / unlock() or try_lock() / unlock().  A thread that can take a step
\* is eventually scheduled, so a reader that holds a shard releases it; a
\* thread spinning on a held shard has no step to take.
MixStep(t) ==
  \/ get_lock(t) \/ shard_lock_shared(t) \/ ls_sem(t) \/ ls_ann(t)
  \/ rw_unlock_shared(t) \/ us_ann(t) \/ us_sem(t)
  \/ percpu_lock(t) \/ lock_loop(t) \/ l_sem(t) \/ l_ann(t)
  \/ percpu_try_lock(t) \/ try_loop(t) \/ tl_sem(t) \/ tl_ann(t) \/ rb_loop(t)
  \/ percpu_unlock(t) \/ unlock_loop(t) \/ u_ann(t) \/ u_sem(t)
  \/ Return(t)

MixNext == \E t \in Threads : MixStep(t)

FairMixSpec == Init /\ [][MixNext]_vars /\ \A t \in Threads : WF_vars(MixStep(t))

\* ------------------------------------------------------------ migration
\* mylock.get_lock().unlock_shared() by a reader that took its shard with
\* mylock.get_lock().lock_shared() and has since been moved to another
\* processor: sched_getcpu() answers c, not the processor of the acquisition,
\* and unlock_shared() runs on locks_[c].lock.  handle[t] stays the shard
\* that was acquired; the client takes its critical section to be over.
migrated_unlock_shared(t) ==
  /\ pc[t] = "idle" /\ holding[t] = "shared"
  /\ handle[t] \in {locks_(k) : k \in Shards}
  /\ migrations < MaxMigrations
  /\ migrations' = migrations + 1
  /\ \E c \in SchedCpus \ {cpu[t]} :
       /\ get_lock_check(c)
       /\ cpu' = Set(cpu, t, c)
       /\ self' = Set(self, t, get_lock_ref(c))
  /\ pc' = Set(pc, t, "us_ann")
  /\ op' = Set(op, t, "migrated_unlock_shared")
  /\ holding' = Set(holding, t, "none")
  /\ UNCHANGED <<env, n_cpus_, rwl, l_, i, handle, ret, calllog>>

\* The scheduler moves a reader to another processor inside its critical
\* section; the reader keeps the handle get_lock() gave it.  cpu[t] becomes
\* the processor the thread now runs on.
migrate(t) ==
  /\ pc[t] = "idle" /\ holding[t] = "shared"
  /\ handle[t] \in {locks_(k) : k \in Shards}
  /\ migrations < MaxMigrations
  /\ migrations' = migrations + 1
  /\ \E c \in SchedCpus \ {cpu[t]} : cpu' = Set(cpu, t, c)
  /\ UNCHANGED <<env, n_cpus_, rwl, l_, pc, op, i, self, handle, holding, ret, calllog>>

\* sem_.unlock_shared() on a semaphore that has no reader is outside its
\* contract: the call is caught and the process ends, or (us_sem) the count
\* is decremented all the same.
us_sem_fault(t) ==
  /\ pc[t] = "us_sem"
  /\ rwl[self[t]].sem.readers <= 0
  /\ Abort

\* readers through get_lock(), one of whom may be moved between processors
\* inside its critical section and fetch the shard again to unlock, and
\* writers through lock() / unlock()
MigrateStep(t) ==
  \/ get_lock(t) \/ shard_lock_shared(t) \/ ls_sem(t) \/ ls_ann(t)
  \/ rw_unlock_shared(t) \/ migrated_unlock_shared(t)
  \/ us_ann(t) \/ us_sem(t) \/ us_sem_fault(t)
  \/ percpu_lock(t) \/ lock_loop(t) \/ l_sem(t) \/ l_ann(t)
  \/ percpu_unlock(t) \/ unlock_loop(t) \/ u_ann(t) \/ u_sem(t)
  \/ Return(t)

MigrateNext == \E t \in Threads : MigrateStep(t)

SpecMigrate == Init /\ [][MigrateNext]_vars

\* readers through get_lock() who keep their handle and may be moved between
\* processors inside the critical section, and writers through lock() /
\* unlock()
KeepStep(t) ==
  \/ get_lock(t) \/ shard_lock_shared(t) \/ ls_sem(t) \/ ls_ann(t)
  \/ migrate(t)
  \/ rw_unlock_shared(t) \/ us_ann(t) \/ us_sem(t)
  \/ percpu_lock(t) \/ lock_loop(t) \/ l_sem(t) \/ l_ann(t)
  \/ percpu_unlock(t) \/ unlock_loop(t) \/ u_ann(t) \/ u_sem(t)
  \/ Return(t)

KeepNext == \E t \in Threads : KeepStep(t)

SpecKeep == Init /\ [][KeepNext]_vars

\* ------------------------------------------------- hosts and processors
\* every method of the three classes except get_lock()
OtherStep(t) ==
  \/ RwStep(t)
  \/ shard_lock_shared(t)
  \/ percpu_lock(t) \/ lock_loop(t)
  \/ percpu_unlock(t) \/ unlock_loop(t)
  \/ percpu_try_lock(t) \/ try_loop(t) \/ rb_loop(t)
  \/ percpu_is_locked(t) \/ il_loop(t)
  \/ rw_unlock_shared(t)
  \/ Return(t)

\* The percpu_rwlock on a host whose sched_getcpu() is not confined to
\* 0..n_cpus_-1.
CpuNext ==
  \E t \in Threads : get_lock_any(t) \/ oob_lock_shared(t) \/ OtherStep(t)

SpecCpu == Init /\ [][CpuNext]_vars

\* What the processor-count service can answer to the constructor: errno
\* left at 0 or set, and a count that may be negative or zero.
Hosts == [errno : 0..1, ncpus : (0 - 1)..NumCPUs]

\* before the percpu_rwlock is constructed: n_cpus_ not assigned, no shards
CtorInit ==
  /\ env \in Hosts
  /\ n_cpus_ = 0
  /\ migrations = 0
  /\ rwl = [r \in {standalone} |-> RwInit]
  /\ l_ = FALSE
  /\ pc = [t \in Threads |-> "start"]
  /\ op = [t \in Threads |-> "none"]
  /\ i = [t \in Threads |-> 0]
  /\ self = [t \in Threads |-> NoRef]
  /\ handle = [t \in Threads |-> NoRef]
  /\ cpu = [t \in Threads |-> 0]
  /\ holding = [t \in Threads |-> "none"]
  /\ ret = [t \in Threads |-> TRUE]
  /\ calllog = [t \in Threads |-> <<>>]

\* percpu_rwlock(): n_cpus_ is assigned, then the two CHECKs abort or the
\* shards are allocated and the threads may use the lock.
Construct ==
  /\ \A t \in Threads : pc[t] = "start"
  /\ LET made == percpu_rwlock_ctor(env) IN
       /\ n_cpus_' = made.n_cpus_
       /\ rwl' = made.objects
       /\ pc' = [t \in Threads |-> IF made.abort THEN "aborted" ELSE "idle"]
  /\ UNCHANGED <<env, migrations, l_, op, i, self, handle, cpu, holding, ret, calllog>>

CtorNext ==
  \/ Construct
  \/ \E t \in Threads : get_lock(t) \/ OtherStep(t)

SpecCtor == CtorInit /\ [][CtorNext]_vars

\* ================================================================ claims
ShardRefs == {locks_(k) : k \in Shards}

\* lock() has returned, or try_lock() has returned true, and the thread has
\* not yet called unlock()
Granted(t) == holding[t] = "percpu"

\* what percpu_rwlock::is_locked() returns when nothing runs during the call
IsLockedNow == \E k \in Shards : is_locked_cond(k) /\ rw_is_locked(rwl[locks_(k)])

\* try_lock() of the percpu_rwlock has returned false to thread t
TryFailed(t) == pc[t] = "done" /\ op[t] = "percpu_try_lock" /\ ~ret[t]
TrySucceeded(t) == pc[t] = "done" /\ op[t] = "percpu_try_lock" /\ ret[t]

\* thread t waits: the blocking call it is in cannot complete now
Blocked(t) ==
  \/ pc[t] = "l_sem" /\ ~lock_call(rwl[self[t]].sem).enabled
  \/ pc[t] = "ls_sem" /\ ~lock_shared_call(rwl[self[t]].sem).enabled
  \/ pc[t] = "sl_lock" /\ ~SpinLock_Lock(l_).enabled

\* C1: while a thread is granted the percpu_rwlock exclusively, no thread
\* holds or obtains shared access on any shard: every shard has no reader in
\* its semaphore and no thread has completed lock_shared() on it.
C1_ExclusiveExcludesReaders ==
  \A t \in Threads : Granted(t) =>
    \A r \in ShardRefs :
      /\ rwl[r].rhold = {}
      /\ rwl[r].sem.readers = 0
      /\ \A u \in Threads : ~(holding[u] = "shared" /\ handle[u] = r)

\* a reader asks for a shard while another thread is granted exclusively
C1_Witness ==
  \E t, u \in Threads :
    /\ Granted(t) /\ pc[t] = "idle"
    /\ pc[u] = "ls_sem" /\ self[u] \in ShardRefs

\* C2: at most one thread at a time is in the state 'exclusive granted'.
C2_OneExclusiveHolder == Cardinality({t \in Threads : Granted(t)}) <= 1

\* one thread is granted while another is inside lock() or try_lock()
C2_Witness ==
  \E t, u \in Threads :
    /\ Granted(t)
    /\ op[u] \in {"percpu_lock", "percpu_try_lock"} /\ pc[u] \in {"l_sem", "rb_loop"}

\* C3 as stated: right after try_lock() returned false, is_locked() is false
\* and every shard can be acquired.
C3_Original ==
  \A t \in Threads : TryFailed(t) =>
    /\ ~IsLockedNow
    /\ \A r \in ShardRefs : lock_call(rwl[r].sem).enabled

\* C3 as amended: right after try_lock() returned false the caller holds no
\* shard and has no exclusive annotation left on any; is_locked() is then
\* false and every shard can be acquired as soon as no other thread holds a
\* shard.
C3_NothingLeftHeld ==
  \A t \in Threads : TryFailed(t) =>
    /\ \A r \in ShardRefs : t \notin rwl[r].whold /\ <<t, 1>> \notin rwl[r].ann
    /\ (\A r \in ShardRefs : rwl[r].whold = {} /\ rwl[r].rhold = {}) =>
         /\ ~IsLockedNow
         /\ \A r \in ShardRefs : lock_call(rwl[r].sem).enabled

\* try_lock() returned false after it had acquired and rolled back at least
\* one shard, and the lock is free
C3_Witness ==
  \E t \in Threads : TryFailed(t) /\ Len(calllog[t]) > 1 /\ ~IsLockedNow

\* the shard operations of a try_lock() whose first failure is at index f:
\* try_lock on 0..f-1 succeed, try_lock on f fails, unlock on f-1, ..., 0
FailLog(f) ==
  [j \in 1..(2 * f + 1) |->
     IF j <= f THEN <<"try_lock", j - 1, TRUE>>
     ELSE IF j = f + 1 THEN <<"try_lock", f, FALSE>>
     ELSE <<"unlock", (2 * f + 1) - j, TRUE>>]

SuccessLog == [j \in 1..n_cpus_ |-> <<"try_lock", j - 1, TRUE>>]

\* C4: try_lock() tries the shards in ascending order; when it returns false
\* it has unlocked exactly the shards below the first failing index, in
\* descending order, and holds none; when it returns true it has acquired
\* every shard 0..N-1 and holds them all.
C4_TryLockOutcomes ==
  \A t \in Threads :
    /\ TryFailed(t) =>
         /\ \E f \in Shards : calllog[t] = FailLog(f)
         /\ \A r \in ShardRefs : t \notin rwl[r].whold
    /\ TrySucceeded(t) =>
         /\ calllog[t] = SuccessLog
         /\ \A r \in ShardRefs : rwl[r].whold = {t}
         /\ Granted(t)

\* a try_lock() that failed at the last shard and rolled back all the others
C4_Witness ==
  \E t \in Threads : TryFailed(t) /\ calllog[t] = FailLog(n_cpus_ - 1)

\* the semaphore of r as it would be without the exclusive hold of thread a
Without(a, r) ==
  IF a \in rwl[r].whold THEN [rwl[r].sem EXCEPT !.writer = FALSE] ELSE rwl[r].sem

\* the step thread b is about to take gives the same result, and waits or
\* not alike, with and without the shards thread a holds exclusively
SameAsWithout(a, b) ==
  /\ pc[b] = "ls_sem" =>
       lock_shared_call(rwl[self[b]].sem).enabled = lock_shared_call(Without(a, self[b])).enabled
  /\ pc[b] = "l_sem" =>
       lock_call(rwl[self[b]].sem).enabled = lock_call(Without(a, self[b])).enabled
  /\ pc[b] = "tl_sem" =>
       try_lock_call(rwl[self[b]].sem).ret = try_lock_call(Without(a, self[b])).ret
  /\ (pc[b] = "il_loop" /\ is_locked_cond(i[b])) =>
       rw_is_locked(rwl[locks_(i[b])]) = rw_is_locked([sem |-> Without(a, locks_(i[b]))])

\* thread a is in a try_lock() that has met its failing shard and rolls back
InFailedTryLock(a) ==
  op[a] = "percpu_try_lock" /\ pc[a] \in {"rb_loop", "u_ann", "u_sem"}

\* C5 as stated: while a thread is inside a try_lock() that ends in failure,
\* every other thread's operation has the result and the blocking behaviour
\* it would have without that call.
C5_Original ==
  \A a, b \in Threads : (a # b /\ InFailedTryLock(a)) => SameAsWithout(a, b)

\* C5 as amended: the shards a try_lock() holds are held by its caller alone,
\* and another thread's operation can differ from what it would be without
\* the call only while the call is running or after it returned true: once
\* try_lock() has returned false it affects no other thread.
C5_PartialOnlyWhileRunning ==
  \A a \in Threads : op[a] = "percpu_try_lock" =>
    /\ \A r \in ShardRefs : a \in rwl[r].whold => rwl[r].whold = {a} /\ rwl[r].rhold = {}
    /\ TryFailed(a) => \A b \in Threads \ {a} : SameAsWithout(a, b)

\* a reader waits for a shard that only a failed, not yet rolled back
\* try_lock() holds
C5_Witness ==
  \E a, b \in Threads :
    /\ a # b /\ InFailedTryLock(a)
    /\ pc[b] = "ls_sem" /\ rwl[self[b]].whold = {a}

\* thread t is inside percpu_rwlock::lock()
InLock(t) == op[t] = "percpu_lock" /\ pc[t] # "done"

NotAllBlocked == \E t \in Threads : ~Blocked(t)

\* C6 as stated: among threads looping lock(); unlock(), never is every
\* thread blocked, and every lock() call eventually returns.
C6_Original ==
  /\ []NotAllBlocked
  /\ \A t \in Threads : InLock(t) ~> Granted(t)

\* C6 as amended: among threads looping lock(); unlock(), never is every
\* thread blocked, and whenever a thread is inside lock(), some thread's
\* lock() eventually returns.
C6_SomeLockReturns ==
  /\ []NotAllBlocked
  /\ (\E t \in Threads : InLock(t)) ~> (\E t \in Threads : Granted(t))

\* one thread is granted while another waits inside lock()
C6_Witness ==
  \E t, u \in Threads : Granted(t) /\ InLock(u) /\ Blocked(u)

\* C7: every rw_spinlock has either no writer and any number of readers, or
\* exactly one writer and no reader, and its semaphore records just that.
C7_ReaderWriterInvariant ==
  \A r \in RwRefs :
    /\ \/ rwl[r].whold = {}
       \/ Cardinality(rwl[r].whold) = 1 /\ rwl[r].rhold = {}
    /\ rwl[r].sem.writer = (rwl[r].whold # {})
    /\ rwl[r].sem.readers = Cardinality(rwl[r].rhold)

\* a thread asks for a rw_spinlock that another thread holds exclusively
C7_Witness ==
  \E r \in RwRefs : \E t, u \in Threads :
    /\ rwl[r].whold = {t} /\ t # u
    /\ pc[u] \in {"ls_sem", "l_sem", "tl_sem"} /\ self[u] = r

\* no thread holds or is acquiring or releasing the percpu_rwlock exclusively
NoWriter ==
  \A t \in Threads :
    ~Granted(t) /\ op[t] \notin {"percpu_lock", "percpu_try_lock", "percpu_unlock"}

\* thread t holds shared access on a shard it got from get_lock()
ShardReader(t) == holding[t] = "shared" /\ handle[t] \in ShardRefs

\* C8: a reader holds the shard of the processor it called get_lock() on, so
\* readers on different processors hold different shards, and while no
\* thread holds or acquires the percpu_rwlock exclusively a lock_shared() on a
\* shard never waits.
C8_ShardIndependence ==
  /\ \A t \in Threads : ShardReader(t) =>
       handle[t] = locks_(cpu[t]) /\ t \in rwl[locks_(cpu[t])].rhold
  /\ \A t, u \in Threads :
       (ShardReader(t) /\ ShardReader(u) /\ cpu[t] # cpu[u]) => handle[t] # handle[u]
  /\ NoWriter =>
       \A t \in Threads :
         (pc[t] = "ls_sem" /\ self[t] \in ShardRefs) => ~Blocked(t)

\* two threads on different processors hold shared access at the same time
C8_Witness ==
  \E t, u \in Threads :
    /\ ShardReader(t) /\ ShardReader(u) /\ cpu[t] # cpu[u]
    /\ rwl[handle[t]].rhold = {t} /\ rwl[handle[u]].rhold = {u}

\* thread u holds nothing and is in no call
Quiet(u) == pc[u] \in {"idle", "done"} /\ holding[u] = "none"

\* the unlock() or unlock_shared() that ends a pair has returned to thread t
PairDone(t) ==
  pc[t] = "done" /\ op[t] \in {"percpu_unlock", "rw_unlock", "rw_unlock_shared"}

\* C9: when a thread has finished lock(); unlock() or lock_shared();
\* unlock_shared() and no other thread holds or is taking a lock, every
\* rw_spinlock is in its initial state and is_locked() is false.
C9_RoundTrip ==
  \A t \in Threads :
    (PairDone(t) /\ \A u \in Threads \ {t} : Quiet(u)) =>
      /\ \A r \in RwRefs : rwl[r] = RwInit
      /\ ~IsLockedNow
      /\ ~rw_is_locked(rwl[standalone])

\* one thread has finished lock(); unlock() on the percpu_rwlock and another
\* lock_shared(); unlock_shared() on a shard
C9_Witness ==
  \E t, u \in Threads :
    /\ pc[t] = "done" /\ op[t] = "percpu_unlock"
    /\ pc[u] = "done" /\ op[u] = "rw_unlock_shared" /\ handle[u] \in ShardRefs

\* is_locked() of one of the three classes has returned v to thread t
IsLockedReturned(t, v) ==
  /\ pc[t] = "done"
  /\ op[t] \in {"percpu_is_locked", "rw_is_locked", "simple_is_locked"}
  /\ ret[t] = v

\* C10: is_locked() never returns false to a thread that holds the lock it
\* asks about during the whole call.
C10_IsLockedSeesOwnHold ==
  \A t \in Threads : IsLockedReturned(t, FALSE) => holding[t] = "none"

\* percpu_rwlock::is_locked() returned true to a reader of the last shard
\* while no other shard was held
C10_Witness ==
  \E t \in Threads :
    /\ IsLockedReturned(t, TRUE) /\ op[t] = "percpu_is_locked"
    /\ holding[t] = "shared" /\ handle[t] = locks_(n_cpus_ - 1)
    /\ \A k \in Shards : k # n_cpus_ - 1 => ~rw_is_locked(rwl[locks_(k)])

\* C11: get_lock() hands out a shard only for a processor id inside 0..N-1; for
\* an id outside that range (N or more, or negative such as -1) the check
\* fails and no shard reference is formed.
C11_Original ==
  \A t \in Threads :
    pc[t] = "got_lock" => cpu[t] \in Shards /\ handle[t] \in ShardRefs
Constructed == \A t \in Threads : pc[t] \notin {"start", "aborted"}
Aborted == \A t \in Threads : pc[t] = "aborted"

C12_State ==
  /\ Aborted => env.errno # 0 \/ env.ncpus <= 0
  /\ (env.errno # 0 \/ env.ncpus <= 0) => ~Constructed
  /\ Constructed =>
       /\ n_cpus_ = env.ncpus /\ n_cpus_ > 0
       /\ Cardinality(ShardRefs) = n_cpus_
       /\ ShardRefs \subseteq DOMAIN rwl

C12_Step ==
  /\ Constructed => n_cpus_' = n_cpus_ /\ ShardRefs' = ShardRefs
  /\ (~Constructed /\ Constructed') =>
       /\ \A r \in ShardRefs' : rwl'[r] = RwInit /\ lock_call(rwl'[r].sem).enabled
       /\ ~IsLockedNow'

\* C12: constructing a percpu_rwlock either aborts the process (the count
\* service reported an error or a count N <= 0) or leaves exactly N > 0
\* shards, all unlocked and acquirable; no lock with N <= 0 is ever used, and
\* N is the same after every later step.
C12_Construction == []C12_State /\ [][C12_Step]_vars

\* a constructed lock with all N shards that has since been taken exclusively
C12_Witness ==
  /\ Constructed /\ n_cpus_ = NumCPUs
  /\ \E t \in Threads : Granted(t)
\* thread u holds rw_spinlock r, shared or exclusive
Holds(u, r) == r \in DOMAIN rwl /\ u \in rwl[r].whold \cup rwl[r].rhold

\* thread t spins on an rw_spinlock that thread u holds
WaitsFor(t, u) == Blocked(t) /\ Holds(u, self[t])

\* no set of threads in which each waits for a shard held by one of the set
NoCyclicWait ==
  \A S \in (SUBSET Threads) \ {{}} :
    ~(\A t \in S : \E u \in S : WaitsFor(t, u))

\* some thread other than t has just been given a shard
OtherAcquires(t) ==
  \E u \in Threads \ {t} : pc[u] \in {"ls_ann", "l_ann", "tl_ann"}

\* C13 as stated: with protocol-following readers and writers mixed there is
\* never a cycle of threads waiting for each other's shards, and under fair
\* scheduling every percpu_rwlock::lock() call eventually returns.
C13_Original ==
  /\ []NoCyclicWait
  /\ \A t \in Threads : InLock(t) ~> Granted(t)

\* C13 as amended: there is never a cycle of threads waiting for each other's
\* shards, and under fair scheduling a lock() call that has not returned is
\* followed by its own return or by another thread acquiring a shard: lock()
\* is kept from returning only by threads that keep acquiring.
C13_NoCycleAndOvertaking ==
  /\ []NoCyclicWait
  /\ \A t \in Threads : InLock(t) ~> (Granted(t) \/ OtherAcquires(t))

\* a writer inside lock() holds shard 0 and spins on a shard a reader holds
C13_Witness ==
  \E t, u \in Threads :
    /\ InLock(t) /\ WaitsFor(t, u)
    /\ t \in rwl[locks_(0)].whold
    /\ holding[u] = "shared"
\* the shards thread t holds exclusively
HeldExcl(t) == {k \in Shards : t \in rwl[locks_(k)].whold}

\* t is inside lock(), or inside try_lock() before any shard has refused
Acquiring(t) ==
  /\ op[t] \in {"percpu_lock", "percpu_try_lock"}
  /\ pc[t] \in {"lock_loop", "l_sem", "l_ann", "try_loop", "tl_sem", "tl_ann"}

\* t has asked for a shard and has not been answered
Requesting(t) == pc[t] \in {"l_sem", "tl_sem"}

\* C14: a thread inside lock(), or inside the acquiring phase of try_lock(),
\* holds exactly the shards 0..k-1 for some k, and the shard it is requesting
\* is shard k, all shards below it being held already.
C14_AscendingPrefix ==
  \A t \in Threads :
    Acquiring(t) =>
      /\ \E k \in 0..n_cpus_ : HeldExcl(t) = 0..(k - 1)
      /\ Requesting(t) =>
           \E k \in Shards : self[t] = locks_(k) /\ HeldExcl(t) = 0..(k - 1)

\* a thread inside lock() holds all shards but the last and requests the last
C14_Witness ==
  \E t \in Threads :
    /\ op[t] = "percpu_lock" /\ pc[t] = "l_sem"
    /\ self[t] = locks_(n_cpus_ - 1)
    /\ HeldExcl(t) = 0..(n_cpus_ - 2)
\* the shard operations logged so far by t's running try_lock()
LogEntries(t) == {calllog[t][n] : n \in 1..Len(calllog[t])}

\* the step is one of thread t
Moves(t) == pc'[t] # pc[t]

\* rw_spinlock r records its holders and nothing else
Accounted(r) ==
  /\ rwl[r].sem.writer = (rwl[r].whold # {})
  /\ rwl[r].sem.readers = Cardinality(rwl[r].rhold)

\* what a try_lock() that has returned false has left behind
C15_State ==
  \A t \in Threads :
    /\ TryFailed(t) =>
         /\ \A k \in Shards :
              /\ t \notin rwl[locks_(k)].whold
              /\ <<t, 1>> \notin rwl[locks_(k)].ann
              /\ Accounted(locks_(k))
              /\ (<<"unlock", k, TRUE>> \in LogEntries(t)) = (<<"try_lock", k, TRUE>> \in LogEntries(t))
         /\ \E f \in Shards :
              /\ <<"try_lock", f, FALSE>> \in LogEntries(t)
              /\ \A e \in LogEntries(t) : e[2] <= f
    /\ (pc[t] = "done" /\ op[t] = "rw_try_lock" /\ ~ret[t]) =>
         /\ t \notin rwl[standalone].whold /\ <<t, 1>> \notin rwl[standalone].ann
         /\ Accounted(standalone)
    /\ (pc[t] = "done" /\ op[t] = "simple_try_lock" /\ ~ret[t]) =>
         /\ holding[t] = "none"
         /\ l_ = (\E u \in Threads \ {t} : holding[u] = "simple")

\* what the steps of a try_lock() change
C15_Step ==
  \A t \in Threads :
    Moves(t) =>
      /\ (op[t] = "percpu_try_lock" /\ pc[t] \in {"u_ann", "u_sem"}) =>
           /\ \E k \in Shards :
                /\ self[t] = locks_(k)
                /\ <<"try_lock", k, TRUE>> \in LogEntries(t)
                /\ \A f \in Shards : <<"try_lock", f, FALSE>> \in LogEntries(t) => k < f
           /\ t \in rwl[self[t]].whold
           /\ \A r \in RwRefs \ {self[t]} : rwl'[r] = rwl[r]
      /\ (op[t] = "percpu_try_lock" /\ pc[t] \in {"try_loop", "rb_loop"}) => rwl' = rwl
      /\ (pc[t] = "tl_sem" /\ pc'[t] # "tl_ann") => rwl' = rwl /\ l_' = l_
      /\ (op'[t] = "simple_try_lock" /\ pc'[t] = "done" /\ ~ret'[t]) =>
           rwl' = rwl /\ l_' = l_

\* C15: a try_lock() that returns false releases or alters no shard it did not
\* acquire in that call: the refusing shard and the shards above it are left
\* as they were, every release is of a shard the call had acquired, and after
\* the return every shard records exactly its other holders.  A refused
\* rw_spinlock::try_lock() and simple_spinlock::try_lock() change nothing.
C15_FailedTryLockNoEffect == []C15_State /\ [][C15_Step]_vars

\* a try_lock() refused at the last shard by a reader has returned false after
\* giving back the shards below it, and the reader still holds its shard
C15_Witness ==
  \E t, u \in Threads :
    /\ TryFailed(t)
    /\ <<"try_lock", n_cpus_ - 1, FALSE>> \in LogEntries(t)
    /\ <<"unlock", 0, TRUE>> \in LogEntries(t)
    /\ u \in rwl[locks_(n_cpus_ - 1)].rhold
\* t runs, or has finished, the unlock_shared() it fetched after migrating
InMigratedUnlock(t) == op[t] = "migrated_unlock_shared"

\* after the migrated unlock_shared() the shard that was acquired is still
\* held by the thread, whose critical section is over
C16_State ==
  \A t \in Threads :
    InMigratedUnlock(t) =>
      /\ self[t] # handle[t]
      /\ t \in rwl[handle[t]].rhold
      /\ holding[t] = "none"

\* the release of the migrated unlock_shared() lands on the shard of the new
\* processor and leaves the shard that was acquired as it is
C16_Step ==
  \A t \in Threads :
    (Moves(t) /\ InMigratedUnlock(t) /\ pc[t] = "us_sem" /\ pc'[t] = "done") =>
      /\ self[t] = locks_(cpu[t]) /\ self[t] # handle[t]
      /\ rwl'[self[t]].sem.readers = rwl[self[t]].sem.readers - 1
      /\ rwl'[handle[t]] = rwl[handle[t]]

\* C16: a reader that takes get_lock().lock_shared() on processor p, is moved
\* to processor q # p and calls get_lock().unlock_shared() again releases
\* shard q, which it did not acquire, and shard p stays shared-held; a state
\* that breaks the reader/writer invariant is reachable from there.
C16_MisdirectedRelease == []C16_State /\ [][C16_Step]_vars

\* the misdirected release has freed a shard under another reader: a writer
\* holds that shard exclusively while the reader is in its critical section
C16_Witness ==
  \E t, w, u \in Threads : \E r \in ShardRefs :
    /\ holding[t] = "none" /\ (\E p \in ShardRefs \ {r} : t \in rwl[p].rhold)
    /\ w \in rwl[r].whold
    /\ u # w /\ u \in rwl[r].rhold /\ holding[u] = "shared" /\ handle[u] = r
\* t unlocks through the handle it kept, on another processor than the one
\* whose shard the handle names
MigratedKeeper(t) ==
  /\ op[t] = "rw_unlock_shared"
  /\ handle[t] \in ShardRefs /\ handle[t] # locks_(cpu[t])

\* the step is the release of such an unlock_shared()
KeptHandleRelease(t) == Moves(t) /\ MigratedKeeper(t) /\ pc[t] = "us_sem"

\* C17 as stated: a reader that takes lock_shared() on the handle of processor
\* p, is moved to processor q # p and calls unlock_shared() on the same handle
\* releases the lock state of another shard than the one it acquired.
C17_Original ==
  [][\A t \in Threads :
       KeptHandleRelease(t) =>
         /\ rwl'[handle[t]] = rwl[handle[t]]
         /\ \E r \in ShardRefs \ {handle[t]} : rwl'[r] # rwl[r]]_vars

C17_State ==
  \A t \in Threads :
    /\ (MigratedKeeper(t) /\ pc[t] \in {"us_ann", "us_sem"}) =>
         self[t] = handle[t] /\ t \in rwl[handle[t]].rhold
    /\ (MigratedKeeper(t) /\ pc[t] = "done") =>
         /\ t \notin rwl[handle[t]].rhold
         /\ \A r \in ShardRefs : Accounted(r) /\ t \notin rwl[r].rhold

C17_Step ==
  \A t \in Threads :
    KeptHandleRelease(t) =>
      /\ rwl'[handle[t]].sem.readers = rwl[handle[t]].sem.readers - 1
      /\ rwl'[handle[t]].rhold = rwl[handle[t]].rhold \ {t}
      /\ \A r \in RwRefs \ {handle[t]} : rwl'[r] = rwl[r]

\* C17 as amended: a reader that takes lock_shared() on the handle of
\* processor p, is moved to processor q # p and calls unlock_shared() on the
\* same handle releases shard p, the shard it acquired, and no other; every
\* shard then records exactly its holders.
C17_KeptHandleReleasesAcquired == []C17_State /\ [][C17_Step]_vars

\* a reader moved off its processor has unlocked through the kept handle while
\* another reader holds the shard of the processor it moved to
C17_Witness ==
  \E t, u \in Threads :
    /\ MigratedKeeper(t) /\ pc[t] = "done"
    /\ u # t /\ u \in rwl[locks_(cpu[t])].rhold
\* the race detector counts t as holder of r in mode m (0 shared, 1 exclusive)
Annotated(t, r, m) == <<t, m>> \in rwl[r].ann

\* the semaphore of r has granted t the mode m and t has not released it
PhysHeld(t, r, m) ==
  IF m = 1 THEN t \in rwl[r].whold /\ rwl[r].sem.writer
           ELSE t \in rwl[r].rhold /\ rwl[r].sem.readers > 0

AnnModes == 0..1

C18_State ==
  \A t \in Threads :
    /\ \A r \in RwRefs : \A m \in AnnModes : Annotated(t, r, m) => PhysHeld(t, r, m)
    /\ (pc[t] = "done" /\ op[t] = "rw_try_lock" /\ ~ret[t]) => ~Annotated(t, standalone, 1)

C18_Step ==
  \A t \in Threads : \A r \in RwRefs : \A m \in AnnModes :
    \* acquired is emitted by a thread the semaphore has granted already
    /\ (~Annotated(t, r, m) /\ Annotated(t, r, m)') => PhysHeld(t, r, m) /\ PhysHeld(t, r, m)'
    \* the semaphore is released by a thread that has emitted released
    /\ (PhysHeld(t, r, m) /\ ~PhysHeld(t, r, m)') => ~Annotated(t, r, m)
    \* a refused try_lock() emits nothing
    /\ (Moves(t) /\ pc[t] = "tl_sem" /\ pc'[t] # "tl_ann") => rwl'[r].ann = rwl[r].ann

\* C18: an acquired annotation (slot 0 for lock_shared, slot 1 for lock and
\* try_lock) is emitted only after the semaphore has granted the mode to the
\* thread, try_lock emits it only when it succeeds, and a released annotation
\* is emitted before the semaphore is released: the annotated interval of a
\* thread lies inside the interval in which it holds the semaphore.
C18_AnnotationOrdering == []C18_State /\ [][C18_Step]_vars

\* a writer has emitted released for a shard and still holds its semaphore,
\* while it is annotated as holder of the next shard
C18_Witness ==
  \E t \in Threads :
    /\ op[t] = "percpu_unlock" /\ pc[t] = "u_sem" /\ self[t] = locks_(0)
    /\ PhysHeld(t, self[t], 1) /\ ~Annotated(t, self[t], 1)
    /\ Annotated(t, locks_(1), 1)
\* t has emitted the released annotation of the unlock it is running on
\* self[t] and has not yet called the semaphore
ReleasedEmitted(t) == pc[t] \in {"u_sem", "us_sem"}

\* the mode t is giving back in the unlock it is running
ReleaseMode(t) == IF pc[t] = "u_sem" THEN 1 ELSE 0

\* t has been granted self[t] and has not yet emitted the acquired annotation
AcquiredPending(t, m) ==
  IF m = 1 THEN pc[t] \in {"l_ann", "tl_ann"} ELSE pc[t] = "ls_ann"

\* C19 as stated: whenever a released annotation for a thread's acquisition
\* has been emitted, the semaphore no longer records that thread's hold.
C19_Original ==
  \A t \in Threads :
    ReleasedEmitted(t) => ~PhysHeld(t, self[t], ReleaseMode(t))

\* C19 as amended: the semaphore records a hold the race detector does not
\* see only in two windows of the holder's own call: after the grant and
\* before the acquired annotation, and after the released annotation and
\* before the release of the semaphore; in the second the released event has
\* been observed while the lock is still held.
C19_UnannotatedHoldWindows ==
  \A t \in Threads :
    /\ ReleasedEmitted(t) =>
         /\ PhysHeld(t, self[t], ReleaseMode(t))
         /\ ~Annotated(t, self[t], ReleaseMode(t))
    /\ \A r \in RwRefs : \A m \in AnnModes :
         (PhysHeld(t, r, m) /\ ~Annotated(t, r, m)) =>
           /\ self[t] = r
           /\ AcquiredPending(t, m) \/ (ReleasedEmitted(t) /\ ReleaseMode(t) = m)

\* a reader has emitted released for its shard and the semaphore still counts
\* it, while a writer spins on that shard
C19_Witness ==
  \E t, w \in Threads :
    /\ pc[t] = "us_sem" /\ PhysHeld(t, self[t], 0) /\ ~Annotated(t, self[t], 0)
    /\ pc[w] = "l_sem" /\ self[w] = self[t] /\ Blocked(w)
\* the threads the race detector counts as holders of r in mode m
AnnHolders(r, m) == {t \in Threads : Annotated(t, r, m)}

\* C20: in the race detector's view no rw_spinlock, the shards of the
\* percpu_rwlock during lock(), unlock() and try_lock() with rollback
\* included, has two exclusive holders or an exclusive holder together with a
\* shared one, and once a percpu_rwlock::try_lock() has returned false each
\* exclusive acquired it emitted has been followed by its released on the
\* same shard.
C20_DetectorView ==
  /\ \A r \in RwRefs :
       /\ Cardinality(AnnHolders(r, 1)) <= 1
       /\ AnnHolders(r, 1) # {} => AnnHolders(r, 0) = {}
  /\ \A t \in Threads :
       TryFailed(t) =>
         \A k \in Shards :
           /\ ~Annotated(t, locks_(k), 1)
           /\ <<"try_lock", k, TRUE>> \in LogEntries(t) =>
                \E a, b \in 1..Len(calllog[t]) :
                  /\ a < b
                  /\ calllog[t][a] = <<"try_lock", k, TRUE>>
                  /\ calllog[t][b] = <<"unlock", k, TRUE>>

\* a try_lock() has returned false after annotating and releasing two shards,
\* and the detector sees a reader on the shard that refused it
C20_Witness ==
  \E t, u \in Threads :
    /\ TryFailed(t) /\ Len(calllog[t]) = 2 * n_cpus_ - 1
    /\ AnnHolders(locks_(n_cpus_ - 1), 0) = {u}
====
